---- MODULE Spec2Model ----
(***************************************************************************)
(* Model of the two scripts of con/scripts under auto/:                    *)
(*   find-auto-dependa.py  (the Repo Scanner)                              *)
(*   reautolabel.py        (the Label Rewriter)                            *)
(* GitHub, git and the local clones are the environment: every answer they *)
(* give is a nondeterministic choice, every request the scripts make is    *)
(* appended to a log in the order it is made.                              *)
(***************************************************************************)
EXTENDS Integers, Sequences, FiniteSets, TLC

VARIABLES
    \* ---- Repo Scanner (find-auto-dependa.py)
    oi,         \* index into OWNERS of the owner being listed
    spc,        \* position of the scanner: "iter", "autorc", "dependabot", "done", "aborted"
    r,          \* the repository record of the current loop iteration
    listed,     \* every record the paginated listings yielded so far, in order
    contents,   \* contents[i]: the paths that exist in repository listed[i] (remote truth)
    requests,   \* the HEAD requests issued so far, with status and has_file's outcome
    printed,    \* standard output: the full names printed so far
    \* ---- Label Rewriter (reautolabel.py)
    prefix,     \* args.prefix
    dirs,       \* args.dirpath or [Path.cwd()]
    remote,     \* remote[repo]: what GET returns for the repository of a clone
    autorc,     \* autorc[d]: the text of d/.autorc, a sequence of <<key, value>> members
    di,         \* index into dirs of the directory being processed
    pc,         \* position of the rewriter inside the loop body
    li,         \* index into LABELS of the next label to rename
    repo,       \* local variable repo
    defbranch,  \* local variable defbranch
    head_owner, \* local variable head_owner (None when the repository is no fork)
    config,     \* local variable config: the dict loaded from .autorc
    log         \* every remote request, git command and file write made so far

svars == <<oi, spc, r, listed, contents, requests, printed>>
rvars == <<prefix, dirs, remote, autorc, di, pc, li, repo, defbranch, head_owner,
          config, log>>
vars == <<oi, spc, r, listed, contents, requests, printed,
          prefix, dirs, remote, autorc, di, pc, li, repo, defbranch, head_owner,
          config, log>>

None == "None"

(***************************************************************************)
(*                              Repo Scanner                               *)
(***************************************************************************)

OWNERS == <<"con", "dandi", "datalad", "duecredit", "ReproNim">>

\* The most repositories all listings of one run yield together.
MaxRepos == 2

AUTORC_PATH == ".autorc"
DEPENDABOT_PATH == ".github/dependabot.yml"
Paths == {AUTORC_PATH, DEPENDABOT_PATH}

\* The error statuses, other than 404, a HEAD request may be answered with.
ErrorStatuses == {403, 500}

\* ghreq.Client.request: a non-2xx answer is raised as PrettyHTTPError.
request(status) == IF status \in 200..299 THEN "ok" ELSE "PrettyHTTPError"

has_file_swallow(status) == IF request(status) = "ok" THEN "True" ELSE "False"

\* Client.has_file: "True", "False", or "raise" when the error is re-raised.
has_file(status) ==
    IF request(status) = "PrettyHTTPError"
    THEN IF status = 404 THEN "False" ELSE "raise"
    ELSE "True"

skip_only_archived(rec) == rec.archived

skip_only_forks(rec) == rec.fork

\* The filter of the loop body: `if r["archived"] or r["fork"]: continue`.
skipped(rec) == rec.archived \/ rec.fork

\* What GitHub answers to HEAD {url}/contents/{path}: the truth, or an error.
Answers(i, path) ==
    {IF path \in contents[i] THEN 200 ELSE 404} \cup ErrorStatuses

RepoRecord(owner, k, archived, fork) ==
    [full_name |-> owner \o "/r" \o ToString(k),
     url       |-> "https://api.github.com/repos/" \o owner \o "/r" \o ToString(k),
     archived  |-> archived,
     fork      |-> fork]

NoRepo == [full_name |-> None, url |-> None, archived |-> FALSE, fork |-> FALSE]

ScannerIdle ==
    /\ oi = 1
    /\ spc = "idle"
    /\ r = NoRepo
    /\ listed = <<>>
    /\ contents = <<>>
    /\ requests = <<>>
    /\ printed = <<>>

\* `for r in client.get_repos_for_owner(owner)` yields the next repository, and
\* the loop body filters it.
NextRepo ==
    /\ spc = "iter"
    /\ oi <= Len(OWNERS)
    /\ Len(listed) < MaxRepos
    /\ \E archived \in BOOLEAN, fork \in BOOLEAN, files \in SUBSET Paths :
         LET rec == RepoRecord(OWNERS[oi], Len(listed) + 1, archived, fork) IN
         /\ r' = rec
         /\ listed' = Append(listed, rec)
         /\ contents' = Append(contents, files)
         /\ spc' = IF skipped(rec) THEN "iter" ELSE "autorc"
    /\ UNCHANGED <<oi, requests, printed>>
    /\ UNCHANGED rvars

\* The listing of the current owner is exhausted: the outer loop moves on.
EndOfListing ==
    /\ spc = "iter"
    /\ oi <= Len(OWNERS)
    /\ oi' = oi + 1
    /\ spc' = IF oi = Len(OWNERS) THEN "done" ELSE "iter"
    /\ UNCHANGED <<r, listed, contents, requests, printed>>
    /\ UNCHANGED rvars

\* A page of the listing cannot be fetched: paginate raises, nothing catches it.
ListingError ==
    /\ spc = "iter"
    /\ oi <= Len(OWNERS)
    /\ spc' = "aborted"
    /\ UNCHANGED <<oi, r, listed, contents, requests, printed>>
    /\ UNCHANGED rvars

HeadRequest(path, status) ==
    [url |-> r.url, path |-> path, status |-> status, outcome |-> has_file(status)]

\* client.has_file(r["url"], ".autorc"), the left operand of `and`.
HasFileAutorc ==
    /\ spc = "autorc"
    /\ \E status \in Answers(Len(listed), AUTORC_PATH) :
         /\ requests' = Append(requests, HeadRequest(AUTORC_PATH, status))
         /\ spc' = CASE has_file(status) = "True"  -> "dependabot"
                     [] has_file(status) = "False" -> "iter"
                     [] OTHER                      -> "aborted"
    /\ UNCHANGED <<oi, r, listed, contents, printed>>
    /\ UNCHANGED rvars

\* client.has_file(r["url"], ".github/dependabot.yml") and the print.
HasFileDependabot ==
    /\ spc = "dependabot"
    /\ \E status \in Answers(Len(listed), DEPENDABOT_PATH) :
         /\ requests' = Append(requests, HeadRequest(DEPENDABOT_PATH, status))
         /\ spc' = IF has_file(status) = "raise" THEN "aborted" ELSE "iter"
         /\ printed' = IF has_file(status) = "True"
                       THEN Append(printed, r.full_name)
                       ELSE printed
    /\ UNCHANGED <<oi, r, listed, contents>>
    /\ UNCHANGED rvars



(***************************************************************************)
(*                             Label Rewriter                              *)
(***************************************************************************)

\* (name, release type)
LABELS == <<
    <<"major", "major">>,
    <<"minor", "minor">>,
    <<"patch", "patch">>,
    <<"dependencies", "none">>,
    <<"documentation", "none">>,
    <<"internal", "none">>,
    <<"performance", "none">>,
    <<"tests", "none">>
>>

PR_BRANCH == "auto-prefix-labels"

\* The most directory paths given on the command line.
MaxDirs == 2

Prefixes == {"semver-", "x-"}
Dirs == {"d1", "d2"}
CWD == "cwd"

DirArgs == UNION {[1..n -> Dirs] : n \in 0..MaxDirs}

\* get_local_repo(d): the GitHub repository the clone's origin remote points to.
get_local_repo(d) ==
    CASE d = "d1" -> "alice/proj"
      [] d = "d2" -> "bob/tool"
      [] OTHER    -> "carol/lib"

Login(full_name) ==
    CASE full_name = "alice/proj" -> "alice"
      [] full_name = "bob/tool"   -> "bob"
      [] OTHER                    -> "carol"

PARENT == "acme/base"

\* ---- JSON.  A value is a string or an array of objects; an object on disk
\* is its members in textual order, with the formatting of the text.
JStr(s) == [type |-> "string", str |-> s, arr |-> <<>>]
JArr(a) == [type |-> "array", str |-> "", arr |-> a]

Text(members, indent, newline) ==
    [members |-> members, indent |-> indent, newline |-> newline]

\* The .autorc texts a clone may hold: an empty object, a "labels" key already
\* present beside another key, and a key given twice.
AutorcTexts == {
    Text(<<>>, 0, FALSE),
    Text(<< <<"labels", JArr(<< [name |-> "old", releaseType |-> "none"] >>)>>,
            <<"plugins", JStr("npm")>> >>, 4, TRUE),
    Text(<< <<"plugins", JStr("npm")>>, <<"owner", JStr("con")>>,
            <<"plugins", JStr("git-tag")>> >>, 2, FALSE)
}

Keys(dict) == {dict[i][1] : i \in 1..Len(dict)}

Get(dict, key) == dict[CHOOSE i \in 1..Len(dict) : dict[i][1] = key][2]

\* dict[key] = value: a key already present keeps its position.
SetItem(dict, key, value) ==
    IF key \in Keys(dict)
    THEN [i \in 1..Len(dict) |->
            IF dict[i][1] = key THEN <<key, value>> ELSE dict[i]]
    ELSE Append(dict, <<key, value>>)

RECURSIVE LoadMembers(_, _)
LoadMembers(members, dict) ==
    IF members = <<>> THEN dict
    ELSE LoadMembers(Tail(members),
                     SetItem(dict, Head(members)[1], Head(members)[2]))

\* json.loads: the dict of the text's members; of a repeated key the last
\* value is kept.
json_loads(text) == LoadMembers(text.members, <<>>)

\* json.dumps(config, indent=4) + "\n"
json_dumps(dict) == Text(dict, 4, TRUE)

new_label_suffixed(label) == label \o prefix

\* new_label = prefix + label
new_label(label) == prefix \o label

\* The value assigned to config["labels"].
labels_value ==
    JArr([i \in 1..Len(LABELS) |->
            [name |-> LABELS[i][1], releaseType |-> LABELS[i][2]]])

set_labels_clobber(dict) == << <<"labels", labels_value>> >>

\* config["labels"] = [...]
set_labels(dict) == SetItem(dict, "labels", labels_value)

title == "Prefix auto labels with '" \o prefix \o "'"

\* (the markup characters of the body are left out of the string)
body ==
    "This PR modifies the auto configuration so that the label names"
    \o " (other than release) will be prefixed with '" \o prefix \o "'.  This is"
    \o " necessary to keep Dependabot from applying auto labels to its PRs,"
    \o " causing undesirable version bumps.  "
    \o "See <https://github.com/datalad/datalad-installer/issues/175> for more"
    \o " information."

pr_head_bare(owner) == PR_BRANCH

pr_head_qualified(owner) == owner \o ":" \o PR_BRANCH

\* The "head" of the pull request.
pr_head(owner) ==
    IF owner # None THEN owner \o ":" \o PR_BRANCH ELSE PR_BRANCH

\* One line of the log: a request, a git command or a file operation, and
\* whether it succeeded.
Entry(op, target, arg, argv, ok) ==
    [op |-> op, dir |-> dirs[di], target |-> target, arg |-> arg,
     argv |-> argv, head |-> "", base |-> "", body |-> "", ok |-> ok]

RewriterInit ==
    /\ prefix \in Prefixes
    /\ \E dirpath \in DirArgs :
         dirs = IF dirpath = <<>> THEN <<CWD>> ELSE dirpath
    /\ \E rd \in [{"alice/proj", "bob/tool", "carol/lib"} ->
                    [default_branch : {"main", "master"}, parent : {None, PARENT}]] :
         remote = [o \in {get_local_repo(dirs[i]) : i \in 1..Len(dirs)} |->
                     [default_branch |-> rd[o].default_branch,
                      parent         |-> rd[o].parent,
                      owner          |-> Login(o)]]
    /\ autorc \in [{dirs[i] : i \in 1..Len(dirs)} -> AutorcTexts]
    /\ di = 1
    /\ pc = "resolve"
    /\ li = 1
    /\ repo = None
    /\ defbranch = None
    /\ head_owner = None
    /\ config = <<>>
    /\ log = <<>>
    /\ ScannerIdle

RewriterIdle ==
    /\ prefix = "semver-"
    /\ dirs = <<CWD>>
    /\ remote = [o \in {} |-> None]
    /\ autorc = [d \in {} |-> None]
    /\ di = 1
    /\ pc = "idle"
    /\ li = 1
    /\ repo = None
    /\ defbranch = None
    /\ head_owner = None
    /\ config = <<>>
    /\ log = <<>>


\* repo = get_local_repo(d)
Resolve ==
    /\ pc = "resolve"
    /\ \E ok \in BOOLEAN :
         /\ log' = Append(log, Entry("resolve", get_local_repo(dirs[di]), "", <<>>, ok))
         /\ repo' = IF ok THEN get_local_repo(dirs[di]) ELSE repo
         /\ pc' = IF ok THEN "fetch" ELSE "failed"
    /\ UNCHANGED <<prefix, dirs, remote, autorc, di, li, defbranch, head_owner, config>>
    /\ UNCHANGED svars

\* repo_data = client.get(f"/repo/{repo}"), defbranch, and the fork redirect.
Fetch ==
    /\ pc = "fetch"
    /\ \E ok \in BOOLEAN :
         /\ log' = Append(log, Entry("GET", "/repo/" \o repo, "", <<>>, ok))
         /\ IF ok
            THEN LET repo_data == remote[repo] IN
                 /\ defbranch' = repo_data.default_branch
                 /\ head_owner' = IF repo_data.parent # None
                                  THEN repo_data.owner ELSE None
                 /\ repo' = IF repo_data.parent # None
                            THEN repo_data.parent ELSE repo
                 /\ li' = 1
                 /\ pc' = "rename"
            ELSE /\ pc' = "failed"
                 /\ UNCHANGED <<defbranch, head_owner, repo, li>>
    /\ UNCHANGED <<prefix, dirs, remote, autorc, di, config>>
    /\ UNCHANGED svars

after_rename_eager(i) == "checkout"

\* Where the loop over LABELS goes after renaming label i.
after_rename(i) == IF i = Len(LABELS) THEN "checkout" ELSE "rename"

\* client.patch(f"/repos/{repo}/labels/{label}", json={"new_name": new_label})
Rename ==
    /\ pc = "rename"
    /\ LET label == LABELS[li][1] IN
       \E ok \in BOOLEAN :
         /\ log' = Append(log, Entry("PATCH", "/repos/" \o repo \o "/labels/" \o label,
                                     new_label(label), <<>>, ok))
         /\ li' = IF ok THEN li + 1 ELSE li
         /\ pc' = IF ok THEN after_rename(li) ELSE "failed"
    /\ UNCHANGED <<prefix, dirs, remote, autorc, di, repo, defbranch, head_owner, config>>
    /\ UNCHANGED svars

\* subprocess.run(argv, check=True, cwd=d)
Git(op, argv, next) ==
    /\ \E ok \in BOOLEAN :
         /\ log' = Append(log, Entry(op, "", "", argv, ok))
         /\ pc' = IF ok THEN next ELSE "failed"
    /\ UNCHANGED <<prefix, dirs, remote, autorc, di, li, repo, defbranch, head_owner,
                   config>>
    /\ UNCHANGED svars

\* git checkout -b PR_BRANCH defbranch
Checkout ==
    /\ pc = "checkout"
    /\ Git("checkout", <<"git", "checkout", "-b", PR_BRANCH, defbranch>>, "read")

\* config = json.loads(autorc.read_text(encoding="utf-8"))
Read ==
    /\ pc = "read"
    /\ \E ok \in BOOLEAN :
         /\ log' = Append(log, Entry("read", AUTORC_PATH, "", <<>>, ok))
         /\ config' = IF ok THEN json_loads(autorc[dirs[di]]) ELSE config
         /\ pc' = IF ok THEN "write" ELSE "failed"
    /\ UNCHANGED <<prefix, dirs, remote, autorc, di, li, repo, defbranch, head_owner>>
    /\ UNCHANGED svars

\* config["labels"] = [...]; autorc.write_text(json.dumps(config, indent=4) + "\n")
Write ==
    /\ pc = "write"
    /\ config' = set_labels(config)
    /\ \E ok \in BOOLEAN :
         /\ log' = Append(log, Entry("write", AUTORC_PATH, "", <<>>, ok))
         /\ autorc' = IF ok
                      THEN [autorc EXCEPT ![dirs[di]] = json_dumps(config')]
                      ELSE autorc
         /\ pc' = IF ok THEN "commit" ELSE "failed"
    /\ UNCHANGED <<prefix, dirs, remote, di, li, repo, defbranch, head_owner>>
    /\ UNCHANGED svars

\* git commit -m title .autorc
Commit ==
    /\ pc = "commit"
    /\ Git("commit", <<"git", "commit", "-m", title, AUTORC_PATH>>, "push")

Push_unchecked ==
    /\ pc = "push"
    /\ \E ok \in BOOLEAN :
         /\ log' = Append(log, Entry("push", "", "",
                      <<"git", "push", "--set-upstream", "origin", PR_BRANCH>>, ok))
         /\ pc' = "pr"
    /\ UNCHANGED <<prefix, dirs, remote, autorc, di, li, repo, defbranch, head_owner,
                   config>>
    /\ UNCHANGED svars

\* git push --set-upstream origin PR_BRANCH
Push ==
    /\ pc = "push"
    /\ Git("push", <<"git", "push", "--set-upstream", "origin", PR_BRANCH>>, "pr")

\* pr = client.post(f"/repos/{repo}/pulls", json={...}); then the next directory.
OpenPR ==
    /\ pc = "pr"
    /\ \E ok \in BOOLEAN :
         /\ log' = Append(log,
                [Entry("POST", "/repos/" \o repo \o "/pulls", title, <<>>, ok)
                   EXCEPT !.head = pr_head(head_owner),
                          !.base = defbranch,
                          !.body = body])
         /\ pc' = IF ~ok THEN "failed"
                  ELSE IF di = Len(dirs) THEN "done" ELSE "resolve"
         /\ di' = IF ok THEN di + 1 ELSE di
    /\ UNCHANGED <<prefix, dirs, remote, autorc, li, repo, defbranch, head_owner, config>>
    /\ UNCHANGED svars

RewriterNext ==
    \/ Resolve
    \/ Fetch
    \/ Rename
    \/ Checkout
    \/ Read
    \/ Write
    \/ Commit
    \/ Push
    \/ OpenPR

ScannerNext ==
    \/ NextRepo
    \/ EndOfListing
    \/ ListingError
    \/ HasFileAutorc
    \/ HasFileDependabot

\* The state in which the scanner starts: `with Client(...) as client`.
ScannerInit ==
    /\ oi = 1
    /\ spc = "iter"
    /\ r = NoRepo
    /\ listed = <<>>
    /\ contents = <<>>
    /\ requests = <<>>
    /\ printed = <<>>
    /\ RewriterIdle

ScannerSpec == ScannerInit /\ [][ScannerNext]_vars

RewriterSpec == RewriterInit /\ [][RewriterNext]_vars


(***************************************************************************)
(*                     Properties of the Repo Scanner                      *)
(***************************************************************************)

Qualifies(i) ==
    /\ ~listed[i].archived
    /\ ~listed[i].fork
    /\ AUTORC_PATH \in contents[i]
    /\ DEPENDABOT_PATH \in contents[i]

IsPrinted(name) == \E j \in 1..Len(printed) : printed[j] = name

\* C4: every printed name is the full name of a listed repository that is
\* not archived, not a fork and holds both files; and when the run ends
\* without an error, every such listed repository has been printed.
C4_PrintedIffQualifies ==
    /\ \A j \in 1..Len(printed) :
         \E i \in 1..Len(listed) :
            listed[i].full_name = printed[j] /\ Qualifies(i)
    /\ spc = "done" =>
         \A i \in 1..Len(listed) : Qualifies(i) <=> IsPrinted(listed[i].full_name)

C4_Witness ==
    /\ spc = "done"
    /\ Len(printed) = 1
    /\ \E i \in 1..Len(listed) :
         /\ ~IsPrinted(listed[i].full_name)
         /\ Paths \subseteq contents[i]

\* C5: no HEAD request is ever issued for, and no name ever printed of, a
\* listed repository that is archived or a fork.
C5_SkippedNeverQueried ==
    \A i \in 1..Len(listed) :
       (listed[i].archived \/ listed[i].fork) =>
          /\ \A q \in 1..Len(requests) : requests[q].url # listed[i].url
          /\ ~IsPrinted(listed[i].full_name)

C5_Witness ==
    /\ Len(requests) >= 2
    /\ Len(printed) >= 1
    /\ \E i \in 1..Len(listed) :
         /\ listed[i].fork
         /\ ~listed[i].archived
         /\ Paths \subseteq contents[i]

\* C6: has_file gives True on a 2xx answer, False exactly on a 404, and on
\* any other status raises; a raise is the last request of the run, leaves
\* the repository unprinted and the scanner aborted, and an aborted scanner
\* takes no further step.
C6_HasFileOutcome ==
    /\ \A q \in 1..Len(requests) :
         LET rq == requests[q] IN
         /\ rq.status \in 200..299 => rq.outcome = "True"
         /\ rq.outcome = "False" <=> rq.status = 404
         /\ (rq.status \notin 200..299 /\ rq.status # 404) => rq.outcome = "raise"
         /\ rq.outcome = "raise" =>
              /\ q = Len(requests)
              /\ spc = "aborted"
              /\ \A i \in 1..Len(listed) :
                   listed[i].url = rq.url => ~IsPrinted(listed[i].full_name)
    /\ spc = "aborted" => ~ENABLED ScannerNext

C6_Witness ==
    /\ spc = "aborted"
    /\ \E a, b, c \in 1..Len(requests) :
         /\ requests[a].outcome = "False"
         /\ requests[b].outcome = "True"
         /\ requests[c].outcome = "raise"
         /\ requests[c].status = 500


(***************************************************************************)
(*                    Properties of the Label Rewriter                     *)
(***************************************************************************)

\* What GitHub holds for the repository the clone in directory d points to.
DataOf(d) == remote[get_local_repo(d)]

IsFork(d) == DataOf(d).parent # None

LabelNames == {LABELS[j][1] : j \in 1..Len(LABELS)}

\* C1: after the edit, the "labels" array of .autorc has eight entries in
\* table order, each named prefix + original name with the table's release
\* type.
C1_LabelsPrefixed ==
    pc = "commit" =>
       LET written == Get(json_loads(autorc[dirs[di]]), "labels").arr IN
       /\ Len(written) = 8
       /\ \A j \in 1..Len(written) :
            /\ written[j].name = prefix \o LABELS[j][1]
            /\ written[j].releaseType = LABELS[j][2]

\* C2: for a fork, every label rename is addressed to the parent repository
\* and the pull request is submitted with head "<owner login>:auto-prefix-labels".
C2_ForkTargetsParent ==
    \A i \in 1..Len(log) :
       IsFork(log[i].dir) =>
          /\ log[i].op = "PATCH" =>
               \E name \in LabelNames :
                  log[i].target =
                     "/repos/" \o DataOf(log[i].dir).parent \o "/labels/" \o name
          /\ log[i].op = "POST" =>
               log[i].head = DataOf(log[i].dir).owner \o ":auto-prefix-labels"

C2_Witness ==
    /\ pc = "done"
    /\ \E i, j \in 1..Len(log) :
         /\ log[i].dir = "d1"
         /\ log[i].op = "PATCH"
         /\ log[i].target = "/repos/acme/base/labels/major"
         /\ log[j].dir = "d1"
         /\ log[j].op = "POST"
         /\ log[j].head = "alice:auto-prefix-labels"
         /\ log[j].ok

\* C3: for a repository that is no fork, the pull request head is the bare
\* branch name, and the label renames and the pull request are addressed to
\* the repository of the clone's origin remote.
C3_NonForkTargetsOrigin ==
    \A i \in 1..Len(log) :
       ~IsFork(log[i].dir) =>
          /\ log[i].op = "PATCH" =>
               \E name \in LabelNames :
                  log[i].target =
                     "/repos/" \o get_local_repo(log[i].dir) \o "/labels/" \o name
          /\ log[i].op = "POST" =>
               /\ log[i].head = "auto-prefix-labels"
               /\ log[i].target = "/repos/" \o get_local_repo(log[i].dir) \o "/pulls"

C3_Witness ==
    /\ pc = "done"
    /\ \E i, j \in 1..Len(log) :
         /\ log[i].dir = "d2"
         /\ log[i].op = "PATCH"
         /\ log[i].target = "/repos/bob/tool/labels/tests"
         /\ log[j].dir = "d2"
         /\ log[j].op = "POST"
         /\ log[j].head = "auto-prefix-labels"
         /\ log[j].target = "/repos/bob/tool/pulls"
         /\ log[j].ok

\* C7: a step that fails is the last step of the run: the rewriter is then
\* in its failed position, where no further step of this or any later
\* directory (and so no compensating step either) can be taken.
C7_FailureIsFatal ==
    /\ \A i \in 1..Len(log) : ~log[i].ok => (i = Len(log) /\ pc = "failed")
    /\ pc = "failed" => (~log[Len(log)].ok /\ ~ENABLED RewriterNext)

C7_Witness ==
    /\ pc = "failed"
    /\ Len(dirs) = 2
    /\ di = 1
    /\ log[Len(log)].op = "push"
    /\ \E i \in 1..Len(log) : log[i].op = "PATCH" /\ log[i].ok

\* The operations of one directory, in the order of the loop body.
BlockOps ==
    <<"resolve", "GET">> \o [j \in 1..8 |-> "PATCH"]
       \o <<"checkout", "read", "write", "commit", "push", "POST">>

\* C8: the log is the fixed sequence of steps, directory after directory:
\* step i of the log is step ((i-1) mod 16)+1 of the sequence, for directory
\* ((i-1) div 16)+1, every step but the last one logged has succeeded, and
\* the branch is created from the repository's default branch.
C8_FixedOrder ==
    \A i \in 1..Len(log) :
       LET k   == ((i - 1) \div Len(BlockOps)) + 1
           off == ((i - 1) % Len(BlockOps)) + 1
       IN  /\ k <= Len(dirs)
           /\ log[i].dir = dirs[k]
           /\ log[i].op = BlockOps[off]
           /\ i < Len(log) => log[i].ok
           /\ log[i].op = "checkout" =>
                log[i].argv = <<"git", "checkout", "-b", "auto-prefix-labels",
                                DataOf(log[i].dir).default_branch>>

C8_Witness ==
    /\ pc = "done"
    /\ Len(dirs) = 2
    /\ dirs[1] # dirs[2]
    /\ Len(log) = 2 * Len(BlockOps)

\* C9: a directory that reaches the branch creation has had exactly eight
\* rename requests before it, the j-th renaming the j-th label of the table
\* to prefix + label; and no rename request is ever made for "release" or
\* any label outside the table.
C9_EightRenames ==
    /\ \A i \in 1..Len(log) :
         log[i].op = "checkout" =>
            /\ i > Len(LABELS) + 1
            /\ log[i - Len(LABELS) - 1].op # "PATCH"
            /\ \A j \in 1..Len(LABELS) :
                 LET e == log[i - Len(LABELS) - 1 + j] IN
                 /\ e.op = "PATCH"
                 /\ e.ok
                 /\ e.dir = log[i].dir
                 /\ e.target =
                      "/repos/"
                      \o (IF IsFork(e.dir) THEN DataOf(e.dir).parent
                          ELSE get_local_repo(e.dir))
                      \o "/labels/" \o LABELS[j][1]
                 /\ e.arg = prefix \o LABELS[j][1]
    /\ \A i \in 1..Len(log) :
         log[i].op = "PATCH" =>
            \E name \in LabelNames \ {"release"} :
               /\ log[i].arg = prefix \o name
               /\ \E full_name \in {"alice/proj", "bob/tool", "carol/lib", PARENT} :
                    log[i].target = "/repos/" \o full_name \o "/labels/" \o name

C9_Witness ==
    /\ prefix = "x-"
    /\ \E i \in 1..Len(log) :
         /\ log[i].op = "checkout"
         /\ log[i - 1].arg = "x-tests"
         /\ log[i - 8].arg = "x-major"

\* C10: the configuration written to .autorc is the configuration loaded
\* from it with the key "labels" set to the new array: the keys are those
\* loaded plus "labels", every other key keeps its value, and a "labels"
\* value already present is replaced.
C10_OnlyLabelsSet ==
    [][(pc = "write" /\ pc' = "commit") =>
         LET loaded  == json_loads(autorc[dirs[di]])
             written == json_loads(autorc'[dirs[di]])
         IN  /\ Keys(written) = Keys(loaded) \cup {"labels"}
             /\ Len(written) = Cardinality(Keys(written))
             /\ \A key \in Keys(loaded) \ {"labels"} :
                  Get(written, key) = Get(loaded, key)
             /\ Get(written, "labels") = labels_value
             /\ autorc'[dirs[di]].indent = 4
             /\ autorc'[dirs[di]].newline]_vars

C10_Witness ==
    /\ pc = "commit"
    /\ Len(config) = 2
    /\ config[1][1] = "labels"
    /\ config[1][2] = labels_value
    /\ config[2] = <<"plugins", JStr("npm")>>
    /\ json_loads(autorc[dirs[di]]) = config

====
